---- MODULE Spec2Model ----
(***************************************************************************)
(* Model of ts-slack-bot (src/main.go): the startup channel guard, the     *)
(* event loop of handler.run, the command router (urfave/cli App built per *)
(* message), and the two handlers deployCmd and podsCmd.                   *)
(*                                                                         *)
(* Text that the program indexes or scans (message texts, command tokens,  *)
(* commit identifiers) is a sequence of one-character strings; text that   *)
(* the program only concatenates and sends is a TLA+ string.  Str converts *)
(* the first into the second.                                              *)
(*                                                                         *)
(* The handler blocks in every external call, so one action runs the code  *)
(* from one blocking point to the next: pc names the call the single       *)
(* control flow is waiting in.                                             *)
(*                                                                         *)
(* rtm.IncomingEvents is a FIFO channel filled by the goroutine of line    *)
(* 59.  feed holds the numbers of the events delivered and not yet taken;  *)
(* nothing reads an event before the loop takes it, so its content is      *)
(* drawn when it is taken.                                                 *)
(***************************************************************************)
EXTENDS Integers, Sequences, FiniteSets, TLC

VARIABLES pc, userID, channels, chans, channelID, handled, cur, trace, res,
          list, sha, image, buf, ret, invoked,
          feed, delivered, closed, serving

vars == <<pc, userID, channels, chans, channelID, handled, cur, trace, res,
          list, sha, image, buf, ret, invoked,
          feed, delivered, closed, serving>>

(* ------------------------------ bounds -------------------------------- *)

MaxEvents   == 2
MaxCommits  == 2
MaxChannels == 2

(* --------------------------- configuration ---------------------------- *)

DockerImagePrefix == "myimage"
K8sNamespace      == "prod"
K8sDeployment     == "web"

(* ------------------------------ values -------------------------------- *)

\* A *string: the nil pointer, or a pointer to a string.
NIL      == [nil |-> TRUE, val |-> << >>]
Ptr(s)   == [nil |-> FALSE, val |-> s]
NoEvent  == [Type |-> "none"]
NoResult == [state |-> "none"]

Users      == {"U0", "U1"}
\* The identity AuthTest resolves for the configured token.
BotIDs     == {"U0"}
ChannelIDs == {"C1", "C2"}
Outputs    == {"", "kubectl says so\n"}
\* deployCmd passes the combined output of a kubectl call on without looking
\* at it: one text per call, a different one for each call.
OutputsOf(name) == {"kubectl " \o name \o " says so\n"}

Sha0  == << >>
Sha3  == <<"a","b","c">>
Sha12 == <<"1","2","3","4","5","6","7","8","9","0","a","b">>
Sha16 == <<"a","b","c","d","e","f","1","2","3","4","5","6","7","8","9","0">>

\* RepositoryCommit.SHA is a *string: nil, or a string of any length.
ShaValues == {NIL, Ptr(Sha0), Ptr(Sha3), Ptr(Sha12), Ptr(Sha16)}

RECURSIVE SeqsUpTo(_, _)
SeqsUpTo(S, n) ==
  IF n = 0 THEN {<< >>}
  ELSE LET shorter == SeqsUpTo(S, n - 1)
       IN  shorter \cup {Append(s, x) : s \in {t \in shorter : Len(t) = n - 1}, x \in S}

CommitLists == SeqsUpTo(ShaValues, MaxCommits)

Channels == [ID : ChannelIDs, Members : SUBSET Users]

\* A channel listing names each channel once.
ChannelListings ==
  {l \in SeqsUpTo(Channels, MaxChannels) :
     \A i, j \in 1..Len(l) : l[i].ID = l[j].ID => i = j}

RECURSIVE Str(_)
Str(s) == IF s = << >> THEN "" ELSE s[1] \o Str(Tail(s))

(* ---------------------------- message texts --------------------------- *)

T_deploy   == <<"!","d","e","p","l","o","y">>
T_pods     == <<"!","p","o","d","s">>
T_podsNs   == <<"!","p","o","d","s"," ","-","-","n","a","m","e","s","p","a","c","e"," ","\"","k"," ","s","\"">>
T_nope     == <<"!","n","o","p","e">>
T_bang     == <<"!">>
T_badquote == <<"!","d","e","p","l","o","y"," ","'","x">>
T_plain    == <<"d","e","p","l","o","y">>
T_late     == <<"h","i"," ","!","d","e","p","l","o","y">>
T_empty    == << >>

Texts == {T_deploy, T_pods, T_podsNs, T_nope, T_bang, T_badquote,
          T_plain, T_late, T_empty}

Events ==
  {[Type |-> "hello"], [Type |-> "other"]} \cup
  {[Type |-> "message", User |-> u, Channel |-> c, Text |-> t] :
     u \in Users, c \in ChannelIDs, t \in Texts}

(* ------------------------------- trace -------------------------------- *)

\* An outbound chat message; flush tells the send of the captured buffer
\* (line 133) from the sends of lines 98 and 110.
Send(ch, text) == [op |-> "send", ch |-> ch, text |-> text, flush |-> FALSE]
Flushed(ch, text) == [op |-> "send", ch |-> ch, text |-> text, flush |-> TRUE]
Call(name, args) == [op |-> "call", name |-> name, args |-> args]

Ok(out)   == [state |-> "ok", out |-> out]
Fail(out) == [state |-> "fail", out |-> out]

NoCalls == [fetch |-> NoResult, setImage |-> NoResult,
            rollout |-> NoResult, pods |-> NoResult]

(* ------------------------------ strings ------------------------------- *)

HasPrefix(s, c) == Len(s) > 0 /\ s[1] = c

TrimPrefix(s, c) == IF HasPrefix(s, c) THEN Tail(s) ELSE s

(* ----------------------- shellwords.Parse (line 125) ------------------ *)
(* The tokenizer over the characters the message texts use: blanks split   *)
(* words, single and double quotes group, a backslash escapes the next     *)
(* character outside single quotes; an open quote or a trailing backslash  *)
(* is the error "invalid command line string".                             *)

isSpace(r) == r \in {" ", "\t", "\r", "\n"}

ParseInit == [args |-> << >>, buf |-> << >>, escaped |-> FALSE,
              doubleQuoted |-> FALSE, singleQuoted |-> FALSE, got |-> FALSE]

ParseStep(st, r) ==
  IF st.escaped
    THEN [st EXCEPT !.buf = Append(@, r), !.escaped = FALSE]
  ELSE IF r = "\\"
    THEN IF st.singleQuoted THEN [st EXCEPT !.buf = Append(@, r)]
                            ELSE [st EXCEPT !.escaped = TRUE]
  ELSE IF isSpace(r)
    THEN IF st.singleQuoted \/ st.doubleQuoted
           THEN [st EXCEPT !.buf = Append(@, r)]
         ELSE IF st.got
           THEN [st EXCEPT !.args = Append(@, st.buf), !.buf = << >>, !.got = FALSE]
         ELSE st
  ELSE IF r = "\"" /\ ~st.singleQuoted
    THEN [st EXCEPT !.doubleQuoted = ~@]
  ELSE IF r = "'" /\ ~st.doubleQuoted
    THEN [st EXCEPT !.singleQuoted = ~@]
  ELSE [st EXCEPT !.got = TRUE, !.buf = Append(@, r)]

RECURSIVE ParseLoop(_, _)
ParseLoop(st, line) ==
  IF line = << >> THEN st ELSE ParseLoop(ParseStep(st, line[1]), Tail(line))

\* Parse returns (args, err); err = "" stands for nil.
Parse(line) ==
  LET st   == ParseLoop(ParseInit, line)
      args == IF st.got THEN Append(st.args, st.buf) ELSE st.args
  IN  IF st.escaped \/ st.singleQuoted \/ st.doubleQuoted
        THEN [args |-> << >>, err |-> "invalid command line string"]
        ELSE [args |-> args, err |-> ""]

(* ------------------- cli.App.Run: the command router ------------------ *)

W_deploy    == <<"d","e","p","l","o","y">>
W_pods      == <<"p","o","d","s">>
W_help      == <<"h","e","l","p">>
W_h         == <<"h">>
W_namespace == <<"-","-","n","a","m","e","s","p","a","c","e">>
W_namespac1 == <<"-","n","a","m","e","s","p","a","c","e">>

AppHelpText   == "NAME:\n   GDG Bot - A new cli application\n\nUSAGE: ...\n"
UsageText     == "Incorrect Usage: flag provided but not defined\n\n"
NoHelpTopic(name) == "No help topic for '" \o Str(name) \o "'\n"

Routed(h, ns, out) == [invoke |-> h, namespace |-> ns, out |-> out]

NoFlags(rest) == \A i \in 1..Len(rest) : ~HasPrefix(rest[i], "-")

(* The outcomes of app.Run(append([]string{"foo"}, args...)) up to the     *)
(* call of the action: which handler is invoked, with which namespace      *)
(* flag, and what the framework writes to app.Writer.  ExitErrHandler      *)
(* (line 122) is a no-op, so an error the framework returns is written     *)
(* nowhere.  For a name outside the command table the default help action  *)
(* either writes "No help topic" to the writer or returns it as an error,  *)
(* depending on the cli release the build links: both outcomes are here.   *)
Route(args) ==
  IF args = << >> THEN {Routed("none", "", AppHelpText)}
  ELSE LET name == Head(args)
           rest == Tail(args)
       IN  IF name = W_deploy
             THEN IF NoFlags(rest) THEN {Routed("deploy", "", "")}
                                   ELSE {Routed("none", "", UsageText)}
           ELSE IF name = W_pods
             THEN IF NoFlags(rest) THEN {Routed("pods", "", "")}
                  ELSE IF Len(rest) = 2 /\ rest[1] \in {W_namespace, W_namespac1}
                    THEN {Routed("pods", Str(rest[2]), "")}
                  ELSE {Routed("none", "", UsageText)}
           ELSE IF name \in {W_help, W_h} /\ rest = << >>
             THEN {Routed("none", "", AppHelpText)}
           ELSE {Routed("none", "", NoHelpTopic(name)), Routed("none", "", "")}

(* --------------------------- handler.run ------------------------------ *)

\* The three-backquote fence of lines 133 and 207, written as a word here.
Backquotes == "[3 backquotes]"

Fence(s) == Backquotes \o s \o Backquotes

\* Progress sent to the channel found at startup instead of cc.Channel.
Mut_printer(ev, tr, s) == Append(tr, Send(channelID, s))

\* printer (lines 108-111): one outbound message to the channel of the
\* message event ev the closure was built for.
printer(ev, tr, s) == Append(tr, Send(ev.Channel, s))

\* lines 132-134: the captured buffer is sent only when it is not empty.
Flush(tr, ch, b) == IF b # "" THEN Append(tr, Flushed(ch, Fence(b))) ELSE tr

\* lines 72-84: the ids of the channels that have the bot as a member.
RECURSIVE MemberChannels(_, _)
MemberChannels(l, uid) ==
  IF l = << >> THEN << >>
  ELSE IF uid \in Head(l).Members
    THEN <<Head(l).ID>> \o MemberChannels(Tail(l), uid)
    ELSE MemberChannels(Tail(l), uid)

\* The guard that only rejects an empty membership.
Mut_SingleChannel(cs) == Len(cs) >= 1

\* line 86
SingleChannel(cs) == Len(cs) = 1

\* The author compared with the channel instead of the bot's identity.
Mut_IsOwnMessage(ev) == ev.User = channelID

\* line 101
IsOwnMessage(ev) == ev.User = userID

\* The marker looked for anywhere in the text (strings.Contains).
Mut_IsCommand(text) == \E i \in 1..Len(text) : text[i] = "!"

\* line 104
IsCommand(text) == HasPrefix(text, "!")

Init ==
  /\ pc = "auth"
  /\ userID = ""
  /\ channels = << >>
  /\ chans = << >>
  /\ channelID = ""
  /\ handled = 0
  /\ cur = NoEvent
  /\ trace = << >>
  /\ res = NoCalls
  /\ list = << >>
  /\ sha = ""
  /\ image = ""
  /\ buf = ""
  /\ ret = ""
  /\ invoked = "none"
  /\ feed = << >>
  /\ delivered = 0
  /\ closed = FALSE
  /\ serving = 0

Running == pc \notin {"fatal", "panic", "done"}

\* line 59: the connection goroutine puts the next event on the feed.
Deliver ==
  /\ Running
  /\ ~closed
  /\ delivered < MaxEvents
  /\ delivered' = delivered + 1
  /\ feed' = Append(feed, delivered + 1)
  /\ UNCHANGED <<pc, userID, channels, chans, channelID, handled, cur, trace,
                 res, list, sha, image, buf, ret, invoked, closed, serving>>

\* The feed is closed by its producer; what it holds can still be taken.
CloseFeed ==
  /\ Running
  /\ ~closed
  /\ closed' = TRUE
  /\ UNCHANGED <<pc, userID, channels, chans, channelID, handled, cur, trace,
                 res, list, sha, image, buf, ret, invoked, feed, delivered,
                 serving>>

\* lines 61-65
AuthTest ==
  /\ pc = "auth"
  /\ \/ \E uid \in BotIDs : userID' = uid /\ pc' = "channels"
     \/ userID' = userID /\ pc' = "fatal"
  /\ UNCHANGED <<channels, chans, channelID, handled, cur, trace, res,
                 list, sha, image, buf, ret, invoked,
                 feed, delivered, closed, serving>>

\* lines 67-91
GetChannels ==
  /\ pc = "channels"
  /\ \/ \E l \in ChannelListings :
          LET cs == MemberChannels(l, userID)
          IN  /\ channels' = l
              /\ chans' = cs
              /\ IF SingleChannel(cs)
                   THEN channelID' = cs[1] /\ pc' = "recv"
                   ELSE channelID' = channelID /\ pc' = "fatal"
     \/ UNCHANGED <<channels, chans, channelID>> /\ pc' = "fatal"
  /\ UNCHANGED <<userID, handled, cur, trace, res,
                 list, sha, image, buf, ret, invoked,
                 feed, delivered, closed, serving>>

\* An iteration that starts while a handler is still running (the command
\* dispatched with a go statement).
Mut_LoopReady ==
  pc \in {"recv", "ListCommits", "SetImage", "Rollout", "GetPods"}

\* line 93: the range statement is reached again only when the body of the
\* previous iteration has returned.
LoopReady == pc = "recv"

\* line 93: the next event leaves the head of the feed; the locals of the
\* previous iteration are gone.
Receive(ev) ==
  /\ LoopReady
  /\ feed # << >>
  /\ serving' = Head(feed)
  /\ feed' = Tail(feed)
  /\ handled' = handled + 1
  /\ cur' = ev
  /\ res' = NoCalls
  /\ list' = << >>
  /\ sha' = ""
  /\ image' = ""
  /\ ret' = ""
  /\ UNCHANGED <<delivered, closed, userID, channels, chans, channelID>>

\* A greeting to the first channel of the listing instead of chans[0].
Mut_helloCase(ch) == <<Send(channels[1].ID, "Hi there")>>

\* lines 97-98
helloCase(ch) == <<Send(ch, "Hi there")>>

\* lines 96-99
HelloEvent ==
  /\ Receive([Type |-> "hello"])
  /\ trace' = helloCase(channelID)
  /\ buf' = ""
  /\ invoked' = "none"
  /\ pc' = "recv"

\* any other event kind: logged only (line 94)
OtherEvent ==
  /\ Receive([Type |-> "other"])
  /\ trace' = << >>
  /\ buf' = ""
  /\ invoked' = "none"
  /\ pc' = "recv"

\* line 93: the range loop ends when the feed is closed and empty; line 137
FeedClosed ==
  /\ pc = "recv"
  /\ closed
  /\ feed = << >>
  /\ pc' = "done"
  /\ UNCHANGED <<feed, delivered, closed, serving, userID, channels, chans, channelID, handled, cur, trace, res,
                 list, sha, image, buf, ret, invoked>>

(* ---------------------------- deployCmd ------------------------------- *)

FetchErrors == {"GET https://api.github.com/repos: 404 Not Found"}

\* lines 160-168: the first commit whose SHA is not nil, cut to 12 bytes;
\* s[0:12] panics when that SHA has fewer than 12 bytes.
RECURSIVE FirstSHA(_)
FirstSHA(l) ==
  IF l = << >> THEN [panic |-> FALSE, sha |-> ""]
  ELSE IF Head(l) # NIL
    THEN IF Len(Head(l).val) < 12
           THEN [panic |-> TRUE, sha |-> ""]
           ELSE [panic |-> FALSE, sha |-> Str(SubSeq(Head(l).val, 1, 12))]
    ELSE FirstSHA(Tail(l))

\* The image reference built without the colon.
Mut_ImageRef(s) == DockerImagePrefix \o s

\* line 173
ImageRef(s) == DockerImagePrefix \o ":" \o s

\* line 175
SetImageArgs(img) ==
  <<"kubectl", "-n", K8sNamespace, "set", "image",
    "deployments/" \o K8sDeployment, "*=" \o img>>

\* line 181
RolloutArgs ==
  <<"kubectl", "-n", K8sNamespace, "rollout", "status",
    "deployments/" \o K8sDeployment>>

\* lines 199-202
PodsArgs(ns) ==
  IF ns # "" THEN <<"kubectl", "get", "pods", "-n", ns>>
             ELSE <<"kubectl", "get", "pods">>

\* lines 149-155: the first progress message, then the commit fetch
deployBegin(ev, tr) ==
  Append(printer(ev, tr, "about to deploy"), Call("ListCommits", << >>))

\* The image announced before the commit count.
Mut_deployAnnounce(ev, tr, l, img) ==
  Append(printer(ev, printer(ev, tr, "deploying image " \o img),
                 ToString(Len(l)) \o " commits"),
         Call("set-image", SetImageArgs(img)))

\* lines 172-175: the commit count, the image announcement, then set image
deployAnnounce(ev, tr, l, img) ==
  Append(printer(ev, printer(ev, tr, ToString(Len(l)) \o " commits"),
                 "deploying image " \o img),
         Call("set-image", SetImageArgs(img)))

\* lines 176-179 and 182-185: a failed kubectl call is reported
deployError(ev, tr, out) == printer(ev, tr, "ERROR: " \o out)

\* lines 180-181: the output of set image, then rollout status
deployRollout(ev, tr, out) ==
  Append(printer(ev, tr, out), Call("rollout-status", RolloutArgs))

\* lines 186-187: the output of rollout status, then the final marker
deployFinish(ev, tr, out) ==
  printer(ev, printer(ev, tr, out), "finished deployment")

\* A failure of set image that is reported but not returned from.
Mut_afterSetImage(ev, tr, ok, out) ==
  IF ok THEN [trace |-> deployRollout(ev, tr, out), pc |-> "Rollout"]
        ELSE [trace |-> deployRollout(ev, deployError(ev, tr, out), out),
              pc |-> "Rollout"]

\* lines 176-181: what follows the return of set image
afterSetImage(ev, tr, ok, out) ==
  IF ok THEN [trace |-> deployRollout(ev, tr, out), pc |-> "Rollout"]
        ELSE [trace |-> deployError(ev, tr, out), pc |-> "recv"]

\* A failure of rollout status that is reported but not returned from.
Mut_afterRollout(ev, tr, ok, out) ==
  IF ok THEN deployFinish(ev, tr, out)
        ELSE deployFinish(ev, deployError(ev, tr, out), out)

\* lines 182-188: what follows the return of rollout status
afterRollout(ev, tr, ok, out) ==
  IF ok THEN deployFinish(ev, tr, out)
        ELSE deployError(ev, tr, out)

\* lines 198-203: the first progress message, then kubectl get pods
podsBegin(ev, tr, ns) ==
  Append(printer(ev, tr, "about to list pods"), Call("get-pods", PodsArgs(ns)))

\* The tokenizer error reported without the continue of line 128: app.Run
\* then runs on no arguments and the help text is flushed.
Mut_onParseError(ev, err) ==
  Flush(printer(ev, << >>, "error: " \o err), ev.Channel, AppHelpText)

\* lines 126-129: the tokenizer error is reported, the event is dropped
onParseError(ev, err) == printer(ev, << >>, "error: " \o err)

\* A buffer that outlives the iteration (declared outside the loop).
Mut_newBuffer(prev) == prev

\* line 112: a new, empty buffer, whatever the previous iteration captured
newBuffer(prev) == ""

\* lines 100-134: a text message, up to the first external call of the
\* handler it dispatches to (or to the end, when it dispatches to none).
MessageEvent ==
  \E ev \in Events :
    /\ ev.Type = "message"
    /\ Receive(ev)
    /\ IF IsOwnMessage(ev) \/ ~IsCommand(ev.Text)
         THEN /\ trace' = << >>
              /\ buf' = ""
              /\ invoked' = "none"
              /\ pc' = "recv"
         ELSE LET p == Parse(TrimPrefix(ev.Text, "!"))
              IN  IF p.err # ""
                    THEN /\ trace' = onParseError(ev, p.err)
                         /\ buf' = ""
                         /\ invoked' = "none"
                         /\ pc' = "recv"
                    ELSE \E r \in Route(p.args) :
                           /\ invoked' = r.invoke
                           /\ buf' = newBuffer(buf) \o r.out
                           /\ IF r.invoke = "deploy"
                                THEN /\ trace' = deployBegin(ev, << >>)
                                     /\ pc' = "ListCommits"
                              ELSE IF r.invoke = "pods"
                                THEN /\ trace' = podsBegin(ev, << >>, r.namespace)
                                     /\ pc' = "GetPods"
                              ELSE /\ trace' = Flush(<< >>, ev.Channel, buf')
                                   /\ pc' = "recv"

\* lines 155-175: the commit fetch returns
ListCommitsReturn ==
  /\ pc = "ListCommits"
  /\ \/ \E e \in FetchErrors :
          /\ res' = [res EXCEPT !.fetch = Fail(e)]
          /\ ret' = e
          /\ trace' = Flush(trace, cur.Channel, buf)
          /\ pc' = "recv"
          /\ UNCHANGED <<list, sha, image>>
     \/ \E l \in CommitLists :
          LET f == FirstSHA(l)
          IN  /\ res' = [res EXCEPT !.fetch = Ok("")]
              /\ list' = l
              /\ IF f.panic
                   THEN /\ pc' = "panic"
                        /\ UNCHANGED <<sha, image, ret, trace>>
                 ELSE IF f.sha = ""
                   THEN /\ ret' = "no sha found"
                        /\ trace' = Flush(trace, cur.Channel, buf)
                        /\ pc' = "recv"
                        /\ UNCHANGED <<sha, image>>
                 ELSE /\ sha' = f.sha
                      /\ image' = ImageRef(f.sha)
                      /\ trace' = deployAnnounce(cur, trace, l, ImageRef(f.sha))
                      /\ pc' = "SetImage"
                      /\ ret' = ret
  /\ UNCHANGED <<feed, delivered, closed, serving, userID, channels, chans, channelID, handled, cur, buf, invoked>>

\* lines 175-181: kubectl set image returns
SetImageReturn ==
  /\ pc = "SetImage"
  /\ \E out \in OutputsOf("set-image"), ok \in BOOLEAN :
       LET a == afterSetImage(cur, trace, ok, out)
       IN  /\ res' = [res EXCEPT !.setImage = IF ok THEN Ok(out) ELSE Fail(out)]
           /\ pc' = a.pc
           /\ trace' = IF a.pc = "recv" THEN Flush(a.trace, cur.Channel, buf)
                                        ELSE a.trace
  /\ UNCHANGED <<feed, delivered, closed, serving, userID, channels, chans, channelID, handled, cur,
                 list, sha, image, buf, ret, invoked>>

\* lines 181-188: kubectl rollout status returns
RolloutStatusReturn ==
  /\ pc = "Rollout"
  /\ \E out \in OutputsOf("rollout-status"), ok \in BOOLEAN :
       /\ res' = [res EXCEPT !.rollout = IF ok THEN Ok(out) ELSE Fail(out)]
       /\ trace' = Flush(afterRollout(cur, trace, ok, out), cur.Channel, buf)
  /\ pc' = "recv"
  /\ UNCHANGED <<feed, delivered, closed, serving, userID, channels, chans, channelID, handled, cur,
                 list, sha, image, buf, ret, invoked>>

(* ----------------------------- podsCmd -------------------------------- *)

\* A failure of kubectl get pods reported to the chat like deploy does.
Mut_afterPods(ev, tr, ok, out) ==
  IF ok THEN printer(ev, tr, Fence(out))
        ELSE printer(ev, tr, "ERROR: " \o out)

\* lines 204-208: a failure is logged only, a success is sent fenced
afterPods(ev, tr, ok, out) ==
  IF ok THEN printer(ev, tr, Fence(out))
        ELSE tr

\* lines 203-209: kubectl get pods returns
GetPodsReturn ==
  /\ pc = "GetPods"
  /\ \E out \in Outputs, ok \in BOOLEAN :
       /\ res' = [res EXCEPT !.pods = IF ok THEN Ok(out) ELSE Fail(out)]
       /\ trace' = Flush(afterPods(cur, trace, ok, out), cur.Channel, buf)
  /\ pc' = "recv"
  /\ UNCHANGED <<feed, delivered, closed, serving, userID, channels, chans, channelID, handled, cur,
                 list, sha, image, buf, ret, invoked>>

(* ------------------------------ system -------------------------------- *)

Next ==
  \/ Deliver
  \/ CloseFeed
  \/ AuthTest
  \/ GetChannels
  \/ HelloEvent
  \/ OtherEvent
  \/ MessageEvent
  \/ FeedClosed
  \/ ListCommitsReturn
  \/ SetImageReturn
  \/ RolloutStatusReturn
  \/ GetPodsReturn

Spec == Init /\ [][Next]_vars

TypeOK ==
  /\ pc \in {"auth", "channels", "fatal", "recv", "ListCommits", "SetImage",
             "Rollout", "GetPods", "panic", "done"}
  /\ handled \in 0..MaxEvents
  /\ delivered \in 0..MaxEvents
  /\ closed \in BOOLEAN
  /\ invoked \in {"none", "deploy", "pods"}

(* ======================= properties of the model ====================== *)

Last(q) == q[Len(q)]

IsPrefix(p, q) == Len(p) <= Len(q) /\ SubSeq(q, 1, Len(p)) = p

Idle == pc \in {"recv", "done"}

Called(name) == \E i \in 1..Len(trace) : trace[i].op = "call" /\ trace[i].name = name

Sent(text) == \E i \in 1..Len(trace) : trace[i].op = "send" /\ trace[i].text = text

\* The full trace of a deploy invocation in which every call succeeds.
DeployTrace(ch, n, img, out1, out2) ==
  << Send(ch, "about to deploy"),
     Call("ListCommits", << >>),
     Send(ch, ToString(n) \o " commits"),
     Send(ch, "deploying image " \o img),
     Call("set-image", SetImageArgs(img)),
     Send(ch, out1),
     Call("rollout-status", RolloutArgs),
     Send(ch, out2),
     Send(ch, "finished deployment") >>

\* C1: a deploy invocation whose commit list yields a revision and whose two
\* orchestrator calls succeed produces exactly the nine-step trace, in
\* order; while it waits in set-image or rollout-status its trace is the
\* first five, respectively seven, steps of it.
C1_DeployOrder ==
  (invoked = "deploy" /\ res.fetch.state = "ok" /\ sha # "") =>
     /\ pc = "SetImage" =>
          /\ Len(trace) = 5
          /\ IsPrefix(trace, DeployTrace(cur.Channel, Len(list), image, "", ""))
     /\ (pc = "Rollout" /\ res.setImage.state = "ok") =>
          /\ Len(trace) = 7
          /\ IsPrefix(trace, DeployTrace(cur.Channel, Len(list), image,
                                         res.setImage.out, ""))
     /\ (res.setImage.state = "ok" /\ res.rollout.state = "ok") =>
          trace = DeployTrace(cur.Channel, Len(list), image,
                              res.setImage.out, res.rollout.out)

C1_Witness ==
  /\ invoked = "deploy"
  /\ res.setImage.state = "ok"
  /\ res.rollout.state = "ok"
  /\ Len(trace) = 9
  /\ Last(trace).text = "finished deployment"

\* C2: when set-image fails, rollout-status is not invoked, the invocation
\* is over, and its last message, sent right after the set-image call, is
\* "ERROR: " followed by the output of set-image.
C2_SetImageFailure ==
  res.setImage.state = "fail" =>
     /\ Idle
     /\ ~Called("rollout-status")
     /\ res.rollout = NoResult
     /\ ~Sent("finished deployment")
     /\ Len(trace) = 6
     /\ trace[5] = Call("set-image", SetImageArgs(image))
     /\ trace[6] = Send(cur.Channel, "ERROR: " \o res.setImage.out)

C2_Witness ==
  /\ res.setImage.state = "fail"
  /\ res.setImage.out # ""
  /\ Last(trace) = Send(cur.Channel, "ERROR: " \o res.setImage.out)

\* C3: "finished deployment" is sent only after set-image and rollout-status
\* were both called and both succeeded, and it is then the last element of
\* the invocation's trace; when rollout-status fails the invocation ends
\* with "ERROR: " followed by its output and without "finished deployment".
C3_FinishedOnlyAfterSuccess ==
  /\ \A i \in 1..Len(trace) :
       (trace[i].op = "send" /\ trace[i].text = "finished deployment") =>
          /\ i = Len(trace)
          /\ res.setImage.state = "ok"
          /\ res.rollout.state = "ok"
          /\ \E j, k \in 1..(i - 1) :
               /\ j < k
               /\ trace[j] = Call("set-image", SetImageArgs(image))
               /\ trace[k] = Call("rollout-status", RolloutArgs)
  /\ res.rollout.state = "fail" =>
       /\ Idle
       /\ Last(trace) = Send(cur.Channel, "ERROR: " \o res.rollout.out)
       /\ ~Sent("finished deployment")

C3_Witness ==
  /\ res.rollout.state = "fail"
  /\ res.setImage.state = "ok"
  /\ Last(trace) = Send(cur.Channel, "ERROR: " \o res.rollout.out)

\* An identifier is empty when the commit has none (nil) or has the empty
\* string.
EmptyId(c) == c.nil \/ c.val = << >>

HasId(l) == \E i \in 1..Len(l) : ~EmptyId(l[i])

FirstId(l) == l[CHOOSE i \in 1..Len(l) :
                  ~EmptyId(l[i]) /\ \A j \in 1..(i - 1) : EmptyId(l[j])].val

OrchestratorCalled == Called("set-image") \/ Called("rollout-status")

\* C4: when the fetched commit list has no commit with a non-empty
\* identifier, deploy fails with "no sha found" and makes no orchestrator
\* call.
C4_NoShaFound ==
  (invoked = "deploy" /\ res.fetch.state = "ok" /\ ~HasId(list)) =>
     /\ Idle
     /\ ret = "no sha found"
     /\ ~OrchestratorCalled

\* C5: every failed external call of a deploy invocation, the commit fetch
\* included, is followed by a message to the channel of the command, after
\* which the invocation is over.
C5_EveryFailureReported ==
  (invoked = "deploy" /\
   \E c \in {"fetch", "setImage", "rollout"} : res[c].state = "fail") =>
     /\ Idle
     /\ Last(trace).op = "send"
     /\ Last(trace).ch = cur.Channel
     /\ Last(trace).text # "about to deploy"

\* C6: no command tears the event loop down, whatever the fetched commit
\* list holds.
C6_LoopSurvives == pc # "panic"

\* C7: once the commit list is fetched and its first non-empty identifier
\* has at least 12 characters, the resolved revision is the first 12
\* characters of that identifier, the empty ones before it being skipped.
C7_RevisionResolution ==
  (invoked = "deploy" /\ res.fetch.state = "ok" /\ HasId(list)
     /\ Len(FirstId(list)) >= 12) =>
        /\ pc # "panic"
        /\ sha = Str(SubSeq(FirstId(list), 1, 12))

\* The channels of the listing that have the bot's identity as a member.
Memberships == {i \in 1..Len(channels) : userID \in channels[i].Members}

StartupOver == pc \notin {"auth", "channels"}

\* C8: when the bot's identity is in no channel or in more than one channel
\* of the listing, startup fails: no event leaves the feed, nothing is sent,
\* no handler runs.
C8_ChannelGuard ==
  (StartupOver /\ Cardinality(Memberships) # 1) =>
     /\ pc = "fatal"
     /\ handled = 0
     /\ cur = NoEvent
     /\ trace = << >>
     /\ invoked = "none"

C8_Witness ==
  /\ pc = "fatal"
  /\ Len(channels) = 2
  /\ Cardinality(Memberships) = 2

\* C9: a text message authored by the bot's own identity sends nothing,
\* invokes no handler and makes no external call, also when its text starts
\* with the command marker.
C9_NoEcho ==
  (cur.Type = "message" /\ cur.User = userID) =>
     /\ Idle
     /\ trace = << >>
     /\ invoked = "none"
     /\ res = NoCalls

C9_Witness ==
  /\ cur.Type = "message"
  /\ cur.User = userID
  /\ cur.Text = T_deploy
  /\ cur.Channel = channelID
  /\ handled = MaxEvents

\* C10: a text message whose text does not start with "!" sends nothing,
\* invokes no handler and makes no external call.
C10_NotACommand ==
  (cur.Type = "message" /\ ~HasPrefix(cur.Text, "!")) =>
     /\ Idle
     /\ trace = << >>
     /\ invoked = "none"
     /\ res = NoCalls

C10_Witness ==
  /\ cur.Type = "message"
  /\ cur.User # userID
  /\ cur.Text = T_late
  /\ trace = << >>

\* C11: an event leaves the feed only when no handler is running (so never
\* while a deploy waits in an external call), one event at a time, and the
\* k-th event taken is the k-th event delivered.
C11_OneAtATime ==
  [][handled' # handled =>
       /\ pc = "recv"
       /\ handled' = handled + 1
       /\ serving' = handled']_vars

\* An event is waiting on the feed while a deploy blocks in rollout status.
C11_Witness ==
  /\ pc = "Rollout"
  /\ invoked = "deploy"
  /\ feed # << >>
  /\ serving = handled

\* The command message being handled passed both filters and was tokenized.
Dispatched ==
  /\ cur.Type = "message"
  /\ cur.User # userID
  /\ HasPrefix(cur.Text, "!")
  /\ Parse(Tail(cur.Text)).err = ""

Tokens == Parse(Tail(cur.Text)).args

\* C12: a command whose first token is neither "pods" nor "deploy" leaves
\* framework text in the captured buffer, which is sent back as one fenced
\* message; no handler is invoked and the loop goes on.
C12_UnknownCommand ==
  (Dispatched /\ Tokens # << >> /\ Tokens[1] \notin {W_deploy, W_pods}) =>
     /\ Idle
     /\ invoked = "none"
     /\ buf # ""
     /\ trace = <<Flushed(cur.Channel, Fence(buf))>>

\* C13: when the tokenizer fails on a command message, the one thing sent is
\* "error: " followed by the tokenizer's error, to the channel of the
\* message; no handler is invoked, no call is made, the buffer is not
\* flushed, and the loop goes on.
C13_TokenizeError ==
  (cur.Type = "message" /\ cur.User # userID /\ HasPrefix(cur.Text, "!")
     /\ Parse(Tail(cur.Text)).err # "") =>
        /\ Idle
        /\ trace = <<Send(cur.Channel, "error: invalid command line string")>>
        /\ invoked = "none"
        /\ res = NoCalls

C13_Witness ==
  /\ cur.Type = "message"
  /\ cur.User # userID
  /\ cur.Text = T_badquote
  /\ Len(trace) = 1

Flushes == {i \in 1..Len(trace) : trace[i].op = "send" /\ trace[i].flush}

\* What the framework can write while routing the tokens of this message.
Written == {r.out : r \in Route(Tokens)}

\* C14: for a dispatched command the captured buffer holds only what the
\* framework wrote for that command; nothing is flushed before dispatch has
\* returned; after it, a non-empty buffer has been sent exactly once, whole
\* and fenced, as the last message, and an empty buffer not at all.
C14_CapturedBuffer ==
  Dispatched =>
     /\ buf \in Written
     /\ ~Idle => Flushes = {}
     /\ (Idle /\ buf = "") => Flushes = {}
     /\ (Idle /\ buf # "") =>
           /\ Flushes = {Len(trace)}
           /\ Last(trace) = Flushed(cur.Channel, Fence(buf))

\* The second of two commands has its own help text flushed, once.
C14_Witness ==
  /\ Dispatched
  /\ handled = 2
  /\ pc = "recv"
  /\ buf = AppHelpText
  /\ Flushes = {1}

\* C15: a pods invocation sends "about to list pods" and then makes its one
\* call; a failed call sends nothing more, a successful one sends exactly
\* the fenced output more.
C15_Pods ==
  invoked = "pods" =>
     /\ Len(trace) >= 2
     /\ trace[1] = Send(cur.Channel, "about to list pods")
     /\ trace[2].op = "call" /\ trace[2].name = "get-pods"
     /\ Cardinality({i \in 1..Len(trace) : trace[i].op = "call"}) = 1
     /\ pc = "GetPods" => Len(trace) = 2
     /\ res.pods.state = "fail" => (Idle /\ Len(trace) = 2)
     /\ res.pods.state = "ok" =>
           /\ Idle
           /\ Len(trace) = 3
           /\ trace[3] = Send(cur.Channel, Fence(res.pods.out))

C15_Witness ==
  /\ invoked = "pods"
  /\ res.pods.state = "fail"
  /\ res.pods.out # ""
  /\ Len(trace) = 2

\* C16: once startup is over the active channel and the bot's identity never
\* change, and every connection-established event sends exactly the greeting
\* to the one channel of the listing that has the bot as a member, invokes
\* no handler and makes no call.
C16_Greeting ==
  [][/\ StartupOver => (channelID' = channelID /\ userID' = userID)
     /\ cur'.Type = "hello" =>
          /\ trace' = <<Send(channelID', "Hi there")>>
          /\ Cardinality(Memberships') = 1
          /\ \A i \in Memberships' : channels'[i].ID = channelID'
          /\ invoked' = "none"
          /\ res' = NoCalls]_vars

\* A second connection-established event, greeted in the same channel.
C16_Witness ==
  /\ cur.Type = "hello"
  /\ handled = 2
  /\ Len(channels) = 2
  /\ trace = <<Send(channelID, "Hi there")>>

\* C17: every message sent while a command message is handled goes to the
\* channel that message came from.
C17_SourceChannel ==
  cur.Type = "message" =>
     \A i \in 1..Len(trace) : trace[i].op = "send" => trace[i].ch = cur.Channel

\* A whole deployment reported in a channel other than the active one.
C17_Witness ==
  /\ cur.Type = "message"
  /\ cur.Channel # channelID
  /\ invoked = "deploy"
  /\ Sent("finished deployment")

\* C18: a handler is started only for a command whose source channel is the
\* active channel.
C18_ActiveChannelOnly ==
  invoked # "none" => cur.Channel = channelID

\* The first commit of the list that has a SHA at all.
FirstPresent(l) == l[CHOOSE i \in 1..Len(l) :
                       ~l[i].nil /\ \A j \in 1..(i - 1) : l[j].nil].val

\* C19: the image passed to set image is the one announced just before it:
\* the configured prefix, a colon, and the 12-character revision resolved
\* from the commit list of this invocation; for a first SHA "1234567890ab"
\* it is "myimage:1234567890ab".
C19_ImageReference ==
  \A i \in 1..Len(trace) :
     (trace[i].op = "call" /\ trace[i].name = "set-image") =>
        /\ sha = Str(SubSeq(FirstPresent(list), 1, 12))
        /\ i > 1
        /\ trace[i - 1] = Send(cur.Channel,
                               "deploying image " \o DockerImagePrefix \o ":" \o sha)
        /\ trace[i].args[7] = "*=" \o DockerImagePrefix \o ":" \o sha
        /\ list[1] = Ptr(Sha12) => trace[i].args[7] = "*=myimage:1234567890ab"

C19_Witness ==
  /\ Called("set-image")
  /\ list[1] = Ptr(Sha12)
  /\ sha = "1234567890ab"
  /\ image = "myimage:1234567890ab"

\* C20: after a successful startup the loop stops only because the feed was
\* closed, and then without an error and with every delivered event handled.
C20_StopsOnlyOnClosure ==
  (chans # << >> /\ pc \in {"done", "panic"}) =>
     /\ pc = "done"
     /\ closed
     /\ feed = << >>
     /\ handled = delivered

====
